---- MODULE Spec2Model ----
(***************************************************************************)
(* Model of the Hilbert Vibration Decomposition engine of hilbert.py:      *)
(* hilbert_decomp and the stages it runs, the kernel runner _parallelize   *)
(* with and without a multiprocessing.Pool, and the numerical helpers the  *)
(* kernels use.                                                            *)
(*                                                                         *)
(* Numbers.  Python floats are modelled by exact rationals <<n, d>> with   *)
(* d > 0 and gcd(n, d) = 1.  The coordinates of input points are integers. *)
(* Results of transcendental functions (math.pi, atan2, hypot, sin, cos)   *)
(* are kept as terms <<"name", operands>>, so two of them are equal only   *)
(* when they were computed from the same operands.                         *)
(*                                                                         *)
(* Sequences are 1-based here and 0-based in the source: the job number i  *)
(* of the source is position i + 1 of the model's sequences.               *)
(*                                                                         *)
(* hilbert.py as it stands does not compile (line 215, in                  *)
(* _lock_in_amp_kernel, is an if without a colon).  The model follows the  *)
(* statements of the functions as written, as they would run with that     *)
(* function left out; _lock_in_amp_kernel itself is never reached, because *)
(* _lock_in_amp raises before it starts a run.                             *)
(***************************************************************************)
EXTENDS Integers, Sequences, FiniteSets, TLC

(* ------------------------------------------------------------------ *)
(* Bounds of the model                                                  *)
(* ------------------------------------------------------------------ *)

\* longest input series
MaxLen == 3

\* longest series _def_integrate is called on by itself
MaxSamples == 5

\* longest coefficient list poly_eval is called on
MaxCoeffs == 3

\* longest argument list parse_args is called on
MaxArgs == 3

\* largest worker pool
MaxWorkers == 2


(* ------------------------------------------------------------------ *)
(* Rational arithmetic (Python float arithmetic, taken as exact)        *)
(* ------------------------------------------------------------------ *)

AbsInt(n) == IF n < 0 THEN -n ELSE n

RECURSIVE Gcd(_, _)
Gcd(a, b) == IF b = 0 THEN a ELSE Gcd(b, a % b)

Rat(n, d) ==
    LET s == IF d < 0 THEN -1 ELSE 1
        g == Gcd(AbsInt(n), AbsInt(d))
    IN  <<(s * n) \div g, (s * d) \div g>>

FromInt(n) == <<n, 1>>

RAdd(a, b) == Rat(a[1] * b[2] + b[1] * a[2], a[2] * b[2])

RSub(a, b) == Rat(a[1] * b[2] - b[1] * a[2], a[2] * b[2])

RMul(a, b) == Rat(a[1] * b[1], a[2] * b[2])

\* a / b for b /= 0; callers raise ZeroDivisionError themselves when b = 0
RDiv(a, b) == Rat(a[1] * b[2], a[2] * b[1])

RAbs(a) == <<AbsInt(a[1]), a[2]>>

RGt(a, b) == a[1] * b[2] > b[1] * a[2]

RIsZero(a) == a[1] = 0

(* ------------------------------------------------------------------ *)
(* Points and series                                                    *)
(* ------------------------------------------------------------------ *)

\* a point of the source is a 2-tuple (x, y); p[0] is PX, p[1] is PY
PX(p) == p[1]

PY(p) == p[2]

\* a tuple that unpacks as "x, y"
IsPair(p) == Len(p) = 2

\* the well-formed points input series are drawn from: three distinct x,
\* one x twice, a zero and a non-zero y
Points == {<<0, 1>>, <<1, 0>>, <<1, 1>>, <<2, 1>>}

\* an input tuple that lacks the y element
BadPoints == {<<0>>}

RECURSIVE SeqsUpTo(_, _)
SeqsUpTo(S, n) ==
    IF n = 0 THEN {<<>>}
    ELSE LET shorter == SeqsUpTo(S, n - 1)
         IN  shorter \cup {Append(s, e) : s \in {t \in shorter : Len(t) = n - 1}, e \in S}

\* sorted(data, key=lambda p: p[0]): stable, ascending by first element
RECURSIVE InsertByX(_, _)
InsertByX(s, p) ==
    IF s = <<>> THEN <<p>>
    ELSE IF PX(s[Len(s)]) <= PX(p) THEN Append(s, p)
    ELSE Append(InsertByX(SubSeq(s, 1, Len(s) - 1), p), s[Len(s)])

RECURSIVE SortedByX(_)
SortedByX(s) ==
    IF s = <<>> THEN <<>>
    ELSE InsertByX(SortedByX(SubSeq(s, 1, Len(s) - 1)), s[Len(s)])

IsSortedByX(s) == \A k \in 1..(Len(s) - 1) : PX(s[k]) <= PX(s[k + 1])

DistinctX(s) == \A j, k \in 1..Len(s) : j /= k => PX(s[j]) /= PX(s[k])

\* [e for e in s if keep(e)]
RECURSIVE SelectIdx(_, _, _)
SelectIdx(s, keep(_), k) ==
    IF k > Len(s) THEN <<>>
    ELSE IF keep(s[k]) THEN <<s[k]>> \o SelectIdx(s, keep, k + 1)
    ELSE SelectIdx(s, keep, k + 1)

(* ------------------------------------------------------------------ *)
(* Outcomes of an evaluation: a value or a raised exception             *)
(* ------------------------------------------------------------------ *)

Ok(v) == [ok |-> TRUE, val |-> v, exc |-> "none"]

Raise(e) == [ok |-> FALSE, val |-> <<>>, exc |-> e]

(* ------------------------------------------------------------------ *)
(* Program constants                                                    *)
(* ------------------------------------------------------------------ *)

\* _TRAPEZOID_THRESHOLD = 0.0001
TrapezoidThreshold == <<1, 10000>>

\* _PROJ_LOW_PASS_CUTOFF = 0.02
ProjLowPassCutoff == <<1, 50>>

\* _ORIG_IF_LOW_PASS_CUTOFF = 0.001
OrigIfLowPassCutoff == <<1, 1000>>

\* abs(d) > _HILBERT_EPSILON, for d a difference of two input x: the input
\* coordinates are integers and _HILBERT_EPSILON = 10^-12 < 1, so the
\* difference exceeds the epsilon exactly when it is not zero
ExceedsHilbertEpsilon(d) == AbsInt(d) >= 1

\* abs(d) < _SINC_EPSILON = 10^-12, for d a difference of two integer x
WithinSincEpsilon(d) == AbsInt(d) < 1

\* the window hilbert_decomp passes to _lock_in_amp
LockInWindow == 230

(* ------------------------------------------------------------------ *)
(* _def_integrate                                                       *)
(* ------------------------------------------------------------------ *)

\* the trapezoid contribution of the step at p0, p1
TrapezoidTerm(p0, p1) ==
    RMul(RMul(RSub(FromInt(PX(p1)), FromInt(PX(p0))), RAdd(PY(p1), PY(p0))), <<1, 2>>)

\* mutant of SimpsonTerm: the width is taken from the middle point
SimpsonTermFromMiddle(p0, p1, p2) ==
    RMul(RDiv(RSub(FromInt(PX(p2)), FromInt(PX(p1))), FromInt(6)),
         RAdd(RAdd(PY(p0), RMul(FromInt(4), PY(p1))), PY(p2)))

\* the Simpson contribution of the step at p0, p1, p2
SimpsonTerm(p0, p1, p2) ==
    RMul(RDiv(RSub(FromInt(PX(p2)), FromInt(PX(p0))), FromInt(6)),
         RAdd(RAdd(PY(p0), RMul(FromInt(4), PY(p1))), PY(p2)))

\* mutant of UseTrapezoidAt: the test compares the x of the middle point,
\* not its y, with the two outer x
UseTrapezoidAtMiddleX(data, i) ==
    IF i + 2 >= Len(data) THEN TRUE
    ELSE LET p0 == data[i + 1]
             p1 == data[i + 2]
             p2 == data[i + 3]
         IN  RGt(RAbs(FromInt(2 * PX(p1) - PX(p0) - PX(p2))), TrapezoidThreshold)

\* the rule chosen at left endpoint i (0-based) of a series of length l,
\* when the previous step did not skip it
UseTrapezoidAt(data, i) ==
    IF i + 2 >= Len(data) THEN TRUE
    ELSE LET p0 == data[i + 1]
             p1 == data[i + 2]
             p2 == data[i + 3]
         IN  RGt(RAbs(RSub(RSub(RMul(PY(p1), FromInt(2)), FromInt(PX(p0))),
                           FromInt(PX(p2)))),
                 TrapezoidThreshold)

\* the loop of _def_integrate from iteration i on: points are <<x, y>> with
\* x an integer and y a rational
RECURSIVE DefIntegrateLoop(_, _, _, _)
DefIntegrateLoop(data, i, use_trapezoid, integral) ==
    IF i >= Len(data) - 1 THEN integral
    ELSE IF ~use_trapezoid THEN DefIntegrateLoop(data, i + 1, TRUE, integral)
    ELSE IF UseTrapezoidAt(data, i)
         THEN DefIntegrateLoop(data, i + 1, TRUE,
                  RAdd(integral, TrapezoidTerm(data[i + 1], data[i + 2])))
         ELSE DefIntegrateLoop(data, i + 1, FALSE,
                  RAdd(integral, SimpsonTerm(data[i + 1], data[i + 2], data[i + 3])))

DefIntegrate(data) == DefIntegrateLoop(data, 0, TRUE, FromInt(0))

(* ------------------------------------------------------------------ *)
(* Kernels                                                              *)
(* ------------------------------------------------------------------ *)

\* v / math.pi
OverPi(v) == <<"over_pi", v>>

\* mutant of HilbertIntegrand: the filter compares t - x, not its absolute
\* value, with the epsilon
RECURSIVE HilbertIntegrandNoAbs(_, _, _)
HilbertIntegrandNoAbs(data, t, k) ==
    IF k > Len(data) THEN <<>>
    ELSE LET x == PX(data[k])
             y == PY(data[k])
         IN  IF t - x >= 1
             THEN <<<<x, RDiv(FromInt(y), FromInt(t - x))>>>> \o HilbertIntegrandNoAbs(data, t, k + 1)
             ELSE HilbertIntegrandNoAbs(data, t, k + 1)

\* the list comprehension of _hilbert_kernel: the points farther than the
\* epsilon from t, each with y / (t - x)
RECURSIVE HilbertIntegrand(_, _, _)
HilbertIntegrand(data, t, k) ==
    IF k > Len(data) THEN <<>>
    ELSE LET x == PX(data[k])
             y == PY(data[k])
         IN  IF ExceedsHilbertEpsilon(t - x)
             THEN <<<<x, RDiv(FromInt(y), FromInt(t - x))>>>> \o HilbertIntegrand(data, t, k + 1)
             ELSE HilbertIntegrand(data, t, k + 1)

\* _hilbert_kernel(i, data); "for x, y in data" raises ValueError on a
\* tuple that has no second element
HilbertKernel(i, data) ==
    LET t == PX(data[i + 1])
    IN  IF \E k \in 1..Len(data) : ~IsPair(data[k])
        THEN Raise("ValueError")
        ELSE Ok(<<t, OverPi(DefIntegrate(HilbertIntegrand(data, t, 1)))>>)

Max(a, b) == IF a >= b THEN a ELSE b

Min(a, b) == IF a <= b THEN a ELSE b

RECURSIVE SumReciprocals(_, _)
SumReciprocals(l, k) ==
    IF k > Len(l) THEN FromInt(0)
    ELSE RAdd(RDiv(FromInt(1), FromInt(l[k])), SumReciprocals(l, k + 1))

\* _harmonic_mean(data): 1 / x and the final division raise
\* ZeroDivisionError on a zero
HarmonicMean(l) ==
    IF \E k \in 1..Len(l) : l[k] = 0 THEN Raise("ZeroDivisionError")
    ELSE LET s == SumReciprocals(l, 1)
         IN  IF RIsZero(s) THEN Raise("ZeroDivisionError")
             ELSE Ok(RDiv(FromInt(Len(l)), s))

\* _moving_kernel(_harmonic_mean, i, data, window), the body of
\* _moving_harmonic_avg_kernel: the slice data[a:b] holds the 0-based
\* positions a .. b - 1
MovingHarmonicAvgKernel(i, data, window) ==
    LET a == Max(0, i - window \div 2)
        b == Min(i + window \div 2, Len(data) - 1)
        l == IF a < b THEN SubSeq(data, a + 1, b) ELSE <<>>
    IN  IF \E k \in 1..Len(l) : ~IsPair(l[k]) THEN Raise("IndexError")
        ELSE LET m == HarmonicMean([k \in 1..Len(l) |-> PY(l[k])])
             IN  IF m.ok THEN Ok(<<PX(data[i + 1]), m.val>>) ELSE m

\* mutant of SincFilter: the quotient is formed for every x, zero included
SincFilterQuotientOnly(x, cutoff) == <<"sin_2pi_over_pi", cutoff, x>>

\* _sinc_filter(x, cutoff) for x a difference of two integers: 2 * cutoff
\* within the epsilon, else sin(2 * cutoff * pi * x) / (pi * x) as a term
SincFilter(x, cutoff) ==
    IF WithinSincEpsilon(x) THEN <<"const", RMul(FromInt(2), cutoff)>>
    ELSE <<"sin_2pi_over_pi", cutoff, x>>

\* the list comprehension of _low_pass_kernel: every point, with
\* y * _sinc_filter(t - x, cutoff) as a term
LowPassIntegrand(data, t, cutoff) ==
    [k \in 1..Len(data) |->
        <<PX(data[k]), <<"mul", PY(data[k]), SincFilter(t - PX(data[k]), cutoff)>>>>]

\* _low_pass_kernel(i, data, cutoff): the integral of terms is a term;
\* "for x, y in data" raises ValueError on a tuple that has no second
\* element
LowPassKernel(i, data, cutoff) ==
    LET t == PX(data[i + 1])
    IN  IF \E k \in 1..Len(data) : ~IsPair(data[k])
        THEN Raise("ValueError")
        ELSE Ok(<<t, <<"def_integrate", LowPassIntegrand(data, t, cutoff)>>>>)

\* func(*arg) for arg = (i, *uniforms)
Invoke(func, arg) ==
    IF func = "_hilbert_kernel" THEN HilbertKernel(arg[1], arg[2])
    ELSE IF func = "_low_pass_kernel" THEN LowPassKernel(arg[1], arg[2], arg[3])
    ELSE MovingHarmonicAvgKernel(arg[1], arg[2], arg[3])

\* mutant of MakeArgs: the job numbers are handed out in descending order
MakeArgsReversed(count, uniforms) == [k \in 1..count |-> <<count - k>> \o uniforms]

\* line 122: args = [(i, *uniforms) for i in range(count)]
MakeArgs(count, uniforms) == [k \in 1..count |-> <<k - 1>> \o uniforms]

(* ------------------------------------------------------------------ *)
(* Stage computations of hilbert_decomp                                 *)
(* ------------------------------------------------------------------ *)

\* _pos_atan2(y, x), as a term
PosAtan2(y, x) == <<"pos_atan2", y, x>>

\* math.hypot(r, i), as a term
Hypot(r, i) == <<"hypot", r, i>>

\* zip(a, b) stops at the shorter list
ZipLen(a, b) == Min(Len(a), Len(b))

\* _analytical_phase(real, imag)
AnalyticalPhase(real, imag) ==
    [k \in 1..ZipLen(real, imag) |-> <<PX(real[k]), PosAtan2(PY(imag[k]), PY(real[k]))>>]

\* _analytical_magnitude(real, imag)
AnalyticalMagnitude(real, imag) ==
    [k \in 1..ZipLen(real, imag) |-> <<PX(real[k]), Hypot(PY(real[k]), PY(imag[k]))>>]

\* (p1[1] - p0[1]) % (2 * math.pi) / dx, as a term, for dx /= 0
PhaseDifferenceQuotient(y0, y1, dx) == <<"mod_2pi_div", y1, y0, dx>>

\* mutant of InstantaneousFrequency: a division that yields inf or nan for
\* a zero divisor, as IEEE arithmetic does, instead of raising
InstantaneousFrequencyInf(phase) ==
    Ok([k \in 1..(Len(phase) - 1) |->
            <<PX(phase[k]),
              IF PX(phase[k + 1]) - PX(phase[k]) = 0
              THEN <<"inf_or_nan", PY(phase[k + 1]), PY(phase[k]), 0>>
              ELSE PhaseDifferenceQuotient(PY(phase[k]), PY(phase[k + 1]),
                                           PX(phase[k + 1]) - PX(phase[k]))>>])

\* lines 75-78: the finite difference over zip(phase, phase[1:]); the float
\* division raises ZeroDivisionError at the first pair with equal x
InstantaneousFrequency(phase) ==
    IF \E k \in 1..(Len(phase) - 1) : PX(phase[k + 1]) - PX(phase[k]) = 0
    THEN Raise("ZeroDivisionError")
    ELSE Ok([k \in 1..(Len(phase) - 1) |->
                <<PX(phase[k]),
                  PhaseDifferenceQuotient(PY(phase[k]), PY(phase[k + 1]),
                                          PX(phase[k + 1]) - PX(phase[k]))>>])

\* line 81: extracted_freq = [(x, 0.02 + 0.00003 * x) for x, _ in freq]
ExtractedFreq(freq) ==
    [k \in 1..Len(freq) |->
        <<PX(freq[k]), RAdd(<<1, 50>>, RMul(<<3, 100000>>, FromInt(PX(freq[k]))))>>]

\* line 87: extracted_amp = [(x, 2 * a) for x, a in _analytical_magnitude(...)]
ExtractedAmp(real, imag) ==
    LET m == AnalyticalMagnitude(real, imag)
    IN  [k \in 1..Len(m) |-> <<PX(m[k]), <<"mul", 2, PY(m[k])>>>>]

\* line 89: signal = [(x, a * math.cos(p)) for (x, a), (_, p) in zip(amp, phase)]
Signal(amp, phase) ==
    [k \in 1..ZipLen(amp, phase) |->
        <<PX(amp[k]), <<"mul", PY(amp[k]), <<"cos", PY(phase[k])>>>>>>]

\* line 101: return signal, []
ReturnValue(signal, sorted) == <<signal, <<>>>>

\* _write_points(fn, points): open(fn + '.csv', 'w') creates or truncates
\* the file and print_points writes the points to it
WritePoints(fs, fn) == fs \cup {fn}

\* the files of lines 90-100
StageDumps ==
    {"raw.csv", "hilbert.csv", "origip.csv", "origia.csv", "origif.csv", "extrif.csv",
     "lprealproj.csv", "lpimagproj.csv", "extria.csv", "extrip.csv", "final.csv"}

\* _imp_integrate(data): the loop header reads l, a name bound neither in
\* the function nor in the module, so the call raises NameError before the
\* first iteration, whatever data is
ImpIntegrate(data) == Raise("NameError")

\* _lock_in_amp(signal, freq, window): its first statement calls
\* _imp_integrate, whose exception it does not catch; the statements after
\* it (len(signal) applied to a tuple, lines 200-211) would raise TypeError
LockInAmp(signal, freq, window) ==
    LET integrated_freq == ImpIntegrate(freq)
    IN  IF ~integrated_freq.ok THEN integrated_freq
        ELSE Raise("TypeError")

(* ------------------------------------------------------------------ *)
(* State                                                                *)
(* ------------------------------------------------------------------ *)

VARIABLES
    entry,      \* the function the caller invoked
    data,       \* the caller's list of points
    parallel,   \* hilbert_decomp's parallel argument
    window,     \* _moving_harmonic_avg's window argument
    workers,    \* the number of worker processes of the pool (0: no pool)
    pc,         \* the statement the call is at
    pool,       \* "none", "open" or "terminated"
    job,        \* the current run of _parallelize
    task,       \* per job number: "queued", "running", "done", "failed", "killed"
    out,        \* per job number: the outcome of its kernel invocation
    order,      \* the job numbers in the order their invocations finished
    loc,        \* the local variables of hilbert_decomp
    err,        \* the exception that ended the call, or "none"
    result,     \* what the call returned
    files       \* the files written so far

vars == <<entry, data, parallel, window, workers, pc, pool, job, task, out, order, loc,
          err, result, files>>

Pending == Raise("pending")

IdleJob ==
    [state |-> "idle", func |-> "none", uniforms |-> <<>>, count |-> 0, args |-> <<>>,
     pooled |-> FALSE, value |-> <<>>, exc |-> "none"]

NoLocals ==
    [data |-> <<>>, hilbert_data |-> <<>>, phase |-> <<>>, amp |-> <<>>, freq |-> <<>>,
     extracted_freq |-> <<>>, in_phase_proj |-> <<>>, hb_phase_proj |-> <<>>,
     extracted_amp |-> <<>>, extracted_phase |-> <<>>, signal |-> <<>>]

\* the windows _moving_harmonic_avg is called with
Windows == {2}

InputSeries == SeqsUpTo(Points \cup BadPoints, MaxLen)

Init ==
    /\ entry \in {"hilbert_decomp", "_moving_harmonic_avg"}
    /\ data \in InputSeries
    /\ \/ /\ entry = "hilbert_decomp"
          /\ parallel \in BOOLEAN
          /\ window = 0
          /\ workers \in (IF parallel THEN 1..MaxWorkers ELSE {0})
          /\ pool = "none"
       \/ /\ entry = "_moving_harmonic_avg"
          /\ parallel = FALSE
          /\ window \in Windows
          /\ workers \in 0..MaxWorkers
          /\ pool = IF workers > 0 THEN "open" ELSE "none"
    /\ pc = "call"
    /\ job = IdleJob
    /\ task = <<>>
    /\ out = <<>>
    /\ order = <<>>
    /\ loc = NoLocals
    /\ err = "none"
    /\ result = <<>>
    /\ files = {}

(* ------------------------------------------------------------------ *)
(* _parallelize                                                         *)
(* ------------------------------------------------------------------ *)

\* the call _parallelize(count, uniforms, func, p): line 122 builds args,
\* and line 123 selects the pooled or the sequential run
StartJob(count, uniforms, func, p) ==
    /\ job' = [state |-> "active", func |-> func, uniforms |-> uniforms, count |-> count,
               args |-> MakeArgs(count, uniforms), pooled |-> (p /= "none"),
               value |-> <<>>, exc |-> "none"]
    /\ task' = [k \in 1..count |-> "queued"]
    /\ out' = [k \in 1..count |-> Pending]
    /\ order' = <<>>

\* mutant of ResultList: the results in the order the invocations finished
\* (imap_unordered)
ResultListAsFinished(o) == [k \in 1..Len(o) |-> o[order[k]].val]

\* the list a finished run returns: the results by job number
ResultList(o) == [k \in 1..Len(o) |-> o[k].val]

\* the number of invocations the sequential comprehension has finished
NextSequential == Cardinality({k \in 1..Len(task) : task[k] = "done"}) + 1

Running == {k \in 1..Len(task) : task[k] = "running"}

\* line 126, one element of [func(*arg) for arg in args]: the invocations
\* run in the caller, in list order; an exception ends the comprehension
SeqInvoke ==
    /\ job.state = "active"
    /\ ~job.pooled
    /\ NextSequential <= job.count
    /\ LET k == NextSequential
           o == Invoke(job.func, job.args[k])
       IN  /\ out' = [out EXCEPT ![k] = o]
           /\ order' = Append(order, k)
           /\ IF o.ok
              THEN /\ task' = [task EXCEPT ![k] = "done"]
                   /\ job' = job
              ELSE /\ task' = [task EXCEPT ![k] = "failed"]
                   /\ job' = [job EXCEPT !.state = "raised", !.exc = o.exc]
    /\ UNCHANGED <<entry, data, parallel, window, workers, pc, pool, loc, err, result, files>>

\* mutant of SeqReturn: the comprehension stops before the last element of
\* args
SeqReturnBeforeLast ==
    /\ job.state = "active"
    /\ ~job.pooled
    /\ NextSequential >= job.count
    /\ job' = [job EXCEPT !.state = "returned", !.value = ResultList(out)]
    /\ UNCHANGED <<entry, data, parallel, window, workers, pc, pool, task, out, order, loc, err,
                   result, files>>

\* line 126: the comprehension is exhausted and the list is returned
SeqReturn ==
    /\ job.state = "active"
    /\ ~job.pooled
    /\ NextSequential > job.count
    /\ job' = [job EXCEPT !.state = "returned", !.value = ResultList(out)]
    /\ UNCHANGED <<entry, data, parallel, window, workers, pc, pool, task, out, order, loc, err,
                   result, files>>

Queued == {k \in 1..Len(task) : task[k] = "queued"}

\* line 124, pool.starmap: a free worker process takes the next invocation
\* of the pool's task queue, which holds them in list order; the workers go
\* on taking the invocations of a run that has already raised in the
\* caller, until the pool is terminated
Dispatch ==
    /\ job.state \in {"active", "raised"}
    /\ job.pooled
    /\ pool = "open"
    /\ Queued /= {}
    /\ Cardinality(Running) < workers
    /\ LET k == CHOOSE q \in Queued : \A r \in Queued : q <= r
       IN  task' = [task EXCEPT ![k] = "running"]
    /\ UNCHANGED <<entry, data, parallel, window, workers, pc, pool, job, out, order, loc, err,
                   result, files>>

\* line 124, pool.starmap: a worker finishes func(*args[k]), in any order
Complete(k) ==
    /\ job.state \in {"active", "raised"}
    /\ job.pooled
    /\ pool = "open"
    /\ task[k] = "running"
    /\ LET o == Invoke(job.func, job.args[k])
       IN  /\ out' = [out EXCEPT ![k] = o]
           /\ order' = Append(order, k)
           /\ task' = [task EXCEPT ![k] = IF o.ok THEN "done" ELSE "failed"]
    /\ UNCHANGED <<entry, data, parallel, window, workers, pc, pool, job, loc, err, result,
                   files>>

\* line 124: starmap returns once every invocation has succeeded
StarmapReturn ==
    /\ job.state = "active"
    /\ job.pooled
    /\ \A k \in 1..job.count : task[k] = "done"
    /\ job' = [job EXCEPT !.state = "returned", !.value = ResultList(out)]
    /\ UNCHANGED <<entry, data, parallel, window, workers, pc, pool, task, out, order, loc, err,
                   result, files>>

\* mutant of StarmapRaise: the failed invocations are dropped and the
\* results of the others are returned
StarmapReturnSucceeded ==
    /\ job.state = "active"
    /\ job.pooled
    /\ \E k \in 1..job.count : task[k] = "failed"
    /\ job' = [job EXCEPT !.state = "returned",
                          !.value = ResultList(SelectIdx(out, LAMBDA o : o.ok, 1))]
    /\ UNCHANGED <<entry, data, parallel, window, workers, pc, pool, task, out, order, loc,
                   err, result, files>>

\* line 124: starmap re-raises the exception of a failed invocation in the
\* caller; whether it does so at once or when the other invocations have
\* finished depends on the Python version, and both are behaviours here
StarmapRaise ==
    /\ job.state = "active"
    /\ job.pooled
    /\ \E k \in 1..job.count :
          /\ task[k] = "failed"
          /\ job' = [job EXCEPT !.state = "raised", !.exc = out[k].exc]
    /\ UNCHANGED <<entry, data, parallel, window, workers, pc, pool, task, out, order, loc, err,
                   result, files>>

\* lines 124 and 126: the caller is interrupted (KeyboardInterrupt) while
\* the run is in progress
Interrupt ==
    /\ job.state = "active"
    /\ job' = [job EXCEPT !.state = "raised", !.exc = "KeyboardInterrupt"]
    /\ UNCHANGED <<entry, data, parallel, window, workers, pc, pool, task, out, order, loc, err,
                   result, files>>

(* ------------------------------------------------------------------ *)
(* hilbert_decomp                                                       *)
(* ------------------------------------------------------------------ *)

\* the statements at which the call waits for a run of _parallelize
WaitPcs == {"hilbert_wait", "low_pass_in_wait", "low_pass_hb_wait", "mha_wait"}

\* mutant of PoolAfterExit: the pool is created without the with
\* statement and is not terminated when the block is left
PoolLeftOpen(p) == p

\* Pool.__exit__ calls terminate(); nullcontext.__exit__ does nothing
PoolAfterExit(p) == IF p = "open" THEN "terminated" ELSE p

\* terminate() stops the worker processes: no queued or running
\* invocation goes on
TasksAfterExit(p, t) ==
    IF p = "open"
    THEN [k \in 1..Len(t) |-> IF t[k] \in {"queued", "running"} THEN "killed" ELSE t[k]]
    ELSE t

\* line 70: with multiprocessing.Pool() if parallel else nullcontext() as pool
Enter ==
    /\ entry = "hilbert_decomp"
    /\ pc = "call"
    /\ pool' = IF parallel THEN "open" ELSE "none"
    /\ pc' = "sort"
    /\ UNCHANGED <<entry, data, parallel, window, workers, job, task, out, order, loc, err, result,
                   files>>

\* mutant of Sort: the caller's list is sorted in place (data.sort(...)) and
\* the local name is bound to that same list
SortInPlace ==
    /\ pc = "sort"
    /\ data' = SortedByX(data)
    /\ loc' = [loc EXCEPT !.data = SortedByX(data)]
    /\ pc' = "hilbert"
    /\ UNCHANGED <<entry, parallel, window, workers, pool, job, task, out, order, err, result,
                   files>>

\* line 71: data = sorted(data, key=lambda p: p[0])
Sort ==
    /\ pc = "sort"
    /\ loc' = [loc EXCEPT !.data = SortedByX(data)]
    /\ pc' = "hilbert"
    /\ UNCHANGED <<entry, data, parallel, window, workers, pool, job, task, out, order, err, result,
                   files>>

\* mutant of HilbertArgument: the kernels get the list as the caller gave it
HilbertArgumentAsGiven(d) == <<d>>

\* line 32: the uniform argument of the kernels, (sorted(data, key=...),)
HilbertArgument(d) == <<SortedByX(d)>>

\* line 72 and line 32: hilbert(data, pool=pool) sorts again and starts the
\* run of _hilbert_kernel
HilbertCall ==
    /\ pc = "hilbert"
    /\ StartJob(Len(loc.data), HilbertArgument(loc.data), "_hilbert_kernel", pool)
    /\ pc' = "hilbert_wait"
    /\ UNCHANGED <<entry, data, parallel, window, workers, pool, loc, err, result, files>>

\* mutant of HilbertReturn: the stage after the Hilbert transform starts
\* without waiting for the run (an asynchronous map whose result is read
\* at once), with the results that are there
HilbertReturnEarly ==
    /\ pc = "hilbert_wait"
    /\ job.state \in {"active", "returned"}
    /\ loc' = [loc EXCEPT !.hilbert_data = ResultList(SelectIdx(out, LAMBDA o : o.ok, 1))]
    /\ pc' = "analytic"
    /\ UNCHANGED <<entry, data, parallel, window, workers, pool, job, task, out, order, err,
                   result, files>>

\* line 72: hilbert_data is bound to the list the run returned
HilbertReturn ==
    /\ pc = "hilbert_wait"
    /\ job.state = "returned"
    /\ loc' = [loc EXCEPT !.hilbert_data = job.value]
    /\ pc' = "analytic"
    /\ UNCHANGED <<entry, data, parallel, window, workers, pool, job, task, out, order, err, result,
                   files>>

\* lines 73-74: phase and amp
Analytic ==
    /\ pc = "analytic"
    /\ loc' = [loc EXCEPT !.phase = AnalyticalPhase(loc.data, loc.hilbert_data),
                          !.amp = AnalyticalMagnitude(loc.data, loc.hilbert_data)]
    /\ pc' = "freq"
    /\ UNCHANGED <<entry, data, parallel, window, workers, pool, job, task, out, order, err, result,
                   files>>

\* lines 75-78: freq, or the ZeroDivisionError of the finite difference
Freq ==
    /\ pc = "freq"
    /\ LET f == InstantaneousFrequency(loc.phase)
       IN  IF f.ok
           THEN /\ loc' = [loc EXCEPT !.freq = f.val]
                /\ pc' = "extracted_freq"
                /\ err' = err
           ELSE /\ loc' = loc
                /\ pc' = "unwind"
                /\ err' = f.exc
    /\ UNCHANGED <<entry, data, parallel, window, workers, pool, job, task, out, order, result,
                   files>>

\* line 81: extracted_freq
ExtractedFreqStage ==
    /\ pc = "extracted_freq"
    /\ loc' = [loc EXCEPT !.extracted_freq = ExtractedFreq(loc.freq)]
    /\ pc' = "lock_in"
    /\ UNCHANGED <<entry, data, parallel, window, workers, pool, job, task, out, order, err, result,
                   files>>

\* line 82: in_phase_proj, hb_phase_proj = _lock_in_amp(hilbert_data, extracted_freq, 230)
LockIn ==
    /\ pc = "lock_in"
    /\ LET r == LockInAmp(loc.hilbert_data, loc.extracted_freq, LockInWindow)
       IN  IF r.ok
           THEN /\ loc' = [loc EXCEPT !.in_phase_proj = r.val[1], !.hb_phase_proj = r.val[2]]
                /\ pc' = "write_proj"
                /\ err' = err
           ELSE /\ loc' = loc
                /\ pc' = "unwind"
                /\ err' = r.exc
    /\ UNCHANGED <<entry, data, parallel, window, workers, pool, job, task, out, order, result,
                   files>>

\* an exception of _parallelize is caught nowhere in hilbert_decomp: it
\* leaves the with block
JobRaised ==
    /\ entry = "hilbert_decomp"
    /\ pc \in WaitPcs
    /\ job.state = "raised"
    /\ pc' = "unwind"
    /\ err' = job.exc
    /\ UNCHANGED <<entry, data, parallel, window, workers, pool, job, task, out, order, loc, result,
                   files>>

\* line 70: the with statement's __exit__, on the exception path ("unwind")
\* and on the return path ("leave")
Exit ==
    /\ pc \in {"unwind", "leave"}
    /\ pool' = PoolAfterExit(pool)
    /\ task' = TasksAfterExit(pool, task)
    /\ pc' = IF pc = "unwind" THEN "raised" ELSE "returned"
    /\ UNCHANGED <<entry, data, parallel, window, workers, job, out, order, loc, err, result, files>>

(* ------------------------------------------------------------------ *)
(* _moving_harmonic_avg, a run of _parallelize on the caller's pool     *)
(* ------------------------------------------------------------------ *)

\* line 246: _parallelize(len(data), (data, window), _moving_harmonic_avg_kernel, pool)
MhaCall ==
    /\ entry = "_moving_harmonic_avg"
    /\ pc = "call"
    /\ StartJob(Len(data), <<data, window>>, "_moving_harmonic_avg_kernel", pool)
    /\ pc' = "mha_wait"
    /\ UNCHANGED <<entry, data, parallel, window, workers, pool, loc, err, result, files>>

\* line 246: the list of the run is returned to the caller
MhaReturn ==
    /\ entry = "_moving_harmonic_avg"
    /\ pc = "mha_wait"
    /\ job.state = "returned"
    /\ result' = job.value
    /\ pc' = "returned"
    /\ UNCHANGED <<entry, data, parallel, window, workers, pool, job, task, out, order, loc, err,
                   files>>

\* line 246: the exception of the run reaches the caller
MhaRaised ==
    /\ entry = "_moving_harmonic_avg"
    /\ pc = "mha_wait"
    /\ job.state = "raised"
    /\ err' = job.exc
    /\ pc' = "raised"
    /\ UNCHANGED <<entry, data, parallel, window, workers, pool, job, task, out, order, loc, result,
                   files>>

(* ------------------------------------------------------------------ *)
(* The program                                                          *)
(* ------------------------------------------------------------------ *)

RunStep ==
    \/ SeqInvoke
    \/ SeqReturn
    \/ Dispatch
    \/ \E k \in 1..Len(task) : Complete(k)
    \/ StarmapReturn
    \/ StarmapRaise
    \/ Interrupt

Next ==
    \/ Enter
    \/ Sort
    \/ HilbertCall
    \/ HilbertReturn
    \/ Analytic
    \/ Freq
    \/ ExtractedFreqStage
    \/ LockIn
    \/ JobRaised
    \/ Exit
    \/ MhaCall
    \/ MhaReturn
    \/ MhaRaised
    \/ RunStep

Spec == Init /\ [][Next]_vars

(* ------------------------------------------------------------------ *)
(* hilbert_decomp after line 82                                         *)
(* ------------------------------------------------------------------ *)

\* lines 83-84: the two projections are written to files
WriteProj ==
    /\ pc = "write_proj"
    /\ files' = WritePoints(WritePoints(files, "realproj.csv"), "imagproj.csv")
    /\ pc' = "low_pass_in"
    /\ UNCHANGED <<entry, data, parallel, window, workers, pool, job, task, out, order, loc,
                   err, result>>

\* lines 85 and 185: _low_pass(in_phase_proj, _PROJ_LOW_PASS_CUTOFF, pool=pool)
LowPassInCall ==
    /\ pc = "low_pass_in"
    /\ StartJob(Len(loc.in_phase_proj), <<loc.in_phase_proj, ProjLowPassCutoff>>,
                "_low_pass_kernel", pool)
    /\ pc' = "low_pass_in_wait"
    /\ UNCHANGED <<entry, data, parallel, window, workers, pool, loc, err, result, files>>

\* line 85: in_phase_proj is rebound to the filtered list
LowPassInReturn ==
    /\ pc = "low_pass_in_wait"
    /\ job.state = "returned"
    /\ loc' = [loc EXCEPT !.in_phase_proj = job.value]
    /\ pc' = "low_pass_hb"
    /\ UNCHANGED <<entry, data, parallel, window, workers, pool, job, task, out, order, err,
                   result, files>>

\* lines 86 and 185: _low_pass(hb_phase_proj, _PROJ_LOW_PASS_CUTOFF, pool=pool)
LowPassHbCall ==
    /\ pc = "low_pass_hb"
    /\ StartJob(Len(loc.hb_phase_proj), <<loc.hb_phase_proj, ProjLowPassCutoff>>,
                "_low_pass_kernel", pool)
    /\ pc' = "low_pass_hb_wait"
    /\ UNCHANGED <<entry, data, parallel, window, workers, pool, loc, err, result, files>>

\* line 86: hb_phase_proj is rebound to the filtered list
LowPassHbReturn ==
    /\ pc = "low_pass_hb_wait"
    /\ job.state = "returned"
    /\ loc' = [loc EXCEPT !.hb_phase_proj = job.value]
    /\ pc' = "reconstruct"
    /\ UNCHANGED <<entry, data, parallel, window, workers, pool, job, task, out, order, err,
                   result, files>>

\* lines 87-88: extracted_amp and extracted_phase
Reconstruct ==
    /\ pc = "reconstruct"
    /\ loc' = [loc EXCEPT
                 !.extracted_amp = ExtractedAmp(loc.in_phase_proj, loc.hb_phase_proj),
                 !.extracted_phase = AnalyticalPhase(loc.in_phase_proj, loc.hb_phase_proj)]
    /\ pc' = "signal"
    /\ UNCHANGED <<entry, data, parallel, window, workers, pool, job, task, out, order, err,
                   result, files>>

\* line 89: signal
SignalStage ==
    /\ pc = "signal"
    /\ loc' = [loc EXCEPT !.signal = Signal(loc.extracted_amp, loc.extracted_phase)]
    /\ pc' = "dump"
    /\ UNCHANGED <<entry, data, parallel, window, workers, pool, job, task, out, order, err,
                   result, files>>

\* lines 90-100: every intermediate series is written to a file
Dump ==
    /\ pc = "dump"
    /\ files' = files \cup StageDumps
    /\ pc' = "return"
    /\ UNCHANGED <<entry, data, parallel, window, workers, pool, job, task, out, order, loc,
                   err, result>>

\* line 101: the return value is built; the with block is left next
Return ==
    /\ pc = "return"
    /\ result' = ReturnValue(loc.signal, loc.data)
    /\ pc' = "leave"
    /\ UNCHANGED <<entry, data, parallel, window, workers, pool, job, task, out, order, loc,
                   err, files>>

\* Lines 83-101 are a function of the locals bound by lines 71-82.
\* _lock_in_amp cannot bind in_phase_proj and hb_phase_proj (ImpIntegrate),
\* so what these lines do is examined with the two projections drawn from
\* the pairs of series over a common subset of the input's x, and the other
\* locals as lines 71-81 compute them.
WellFormed(s) == \A k \in 1..Len(s) : IsPair(s[k])

XsOf(s) == {PX(s[k]) : k \in 1..Len(s)}

StrictlyAscending(s) == \A k \in 1..(Len(s) - 1) : PX(s[k]) < PX(s[k + 1])

SameX(a, b) == Len(a) = Len(b) /\ \A k \in 1..Len(a) : PX(a[k]) = PX(b[k])

ProjectionSeries == {s \in SeqsUpTo(Points, MaxLen) : StrictlyAscending(s)}

\* the pairs of projections: two series with the same x at every index
ProjectionPairs ==
    {pr \in ProjectionSeries \X ProjectionSeries : SameX(pr[1], pr[2])}

\* the inputs that pass lines 71-81: well-formed, no x twice
TailInputs == {s \in SeqsUpTo(Points, MaxLen) : DistinctX(s)}

HilbertOf(sorted) ==
    [k \in 1..Len(sorted) |-> HilbertKernel(k - 1, sorted).val]

\* the locals as lines 71-81 bind them
LocalsBeforeLockIn(input) ==
    LET sorted == SortedByX(input)
        hd == HilbertOf(sorted)
        ph == AnalyticalPhase(sorted, hd)
        fr == InstantaneousFrequency(ph).val
    IN  [NoLocals EXCEPT
           !.data = sorted,
           !.hilbert_data = hd,
           !.phase = ph,
           !.amp = AnalyticalMagnitude(sorted, hd),
           !.freq = fr,
           !.extracted_freq = ExtractedFreq(fr)]

InitTail ==
    /\ entry = "hilbert_decomp"
    /\ data \in TailInputs
    /\ parallel \in BOOLEAN
    /\ window = 0
    /\ workers \in (IF parallel THEN 1..MaxWorkers ELSE {0})
    /\ pool = IF parallel THEN "open" ELSE "none"
    /\ pc = "write_proj"
    /\ \E pr \in ProjectionPairs :
          /\ XsOf(pr[1]) \subseteq XsOf(data)
          /\ loc = [LocalsBeforeLockIn(data) EXCEPT
                       !.in_phase_proj = pr[1], !.hb_phase_proj = pr[2]]
    /\ job = IdleJob
    /\ task = <<>>
    /\ out = <<>>
    /\ order = <<>>
    /\ err = "none"
    /\ result = <<>>
    /\ files = {}

NextTail ==
    \/ WriteProj
    \/ LowPassInCall
    \/ LowPassInReturn
    \/ LowPassHbCall
    \/ LowPassHbReturn
    \/ Reconstruct
    \/ SignalStage
    \/ Dump
    \/ Return

\* the call from its first statement, together with lines 83-101 from
\* every pair of projections
SpecStages == (Init \/ InitTail) /\ [][Next \/ NextTail]_vars

(* ------------------------------------------------------------------ *)
(* hilbert called on a list of the caller                               *)
(* ------------------------------------------------------------------ *)

\* hilbert(data, pool): pool is None or a pool the caller has made
InitHilbert ==
    /\ entry = "hilbert"
    /\ data \in InputSeries
    /\ parallel = FALSE
    /\ window = 0
    /\ workers \in 0..MaxWorkers
    /\ pool = IF workers > 0 THEN "open" ELSE "none"
    /\ pc = "call"
    /\ job = IdleJob
    /\ task = <<>>
    /\ out = <<>>
    /\ order = <<>>
    /\ loc = NoLocals
    /\ err = "none"
    /\ result = <<>>
    /\ files = {}

\* line 32: the run of _hilbert_kernel over the sorted copy starts
HilbertStart ==
    /\ entry = "hilbert"
    /\ pc = "call"
    /\ StartJob(Len(data), HilbertArgument(data), "_hilbert_kernel", pool)
    /\ pc' = "hilbert_run"
    /\ UNCHANGED <<entry, data, parallel, window, workers, pool, loc, err, result, files>>

\* line 32: hilbert returns the list the run returned
HilbertResult ==
    /\ entry = "hilbert"
    /\ pc = "hilbert_run"
    /\ job.state = "returned"
    /\ result' = job.value
    /\ pc' = "returned"
    /\ UNCHANGED <<entry, data, parallel, window, workers, pool, job, task, out, order, loc, err,
                   files>>

\* line 32: the exception of the run reaches the caller
HilbertRaised ==
    /\ entry = "hilbert"
    /\ pc = "hilbert_run"
    /\ job.state = "raised"
    /\ err' = job.exc
    /\ pc' = "raised"
    /\ UNCHANGED <<entry, data, parallel, window, workers, pool, job, task, out, order, loc, result,
                   files>>

NextHilbert ==
    \/ HilbertStart
    \/ HilbertResult
    \/ HilbertRaised
    \/ RunStep

SpecHilbert == InitHilbert /\ [][NextHilbert]_vars

(* ------------------------------------------------------------------ *)
(* _hilbert_kernel and _def_integrate, statement by statement           *)
(* ------------------------------------------------------------------ *)

\* the points _def_integrate is called on by itself: x among three values,
\* y zero or one (as rationals)
SamplePoints == {<<x, FromInt(y)>> : x \in 0..2, y \in 0..1}

SampleSeries == SeqsUpTo(SamplePoints, MaxSamples)

\* the series _hilbert_kernel is called on by itself
KernelSeries == SeqsUpTo(Points, MaxLen) \ {<<>>}

\* the locals of _hilbert_kernel(i, data) and of the _def_integrate it
\* calls: t and the list of the comprehension (points, the data parameter
\* of _def_integrate), the loop variable idx, use_trapezoid and integral;
\* steps lists the left endpoint and the rule of every contribution added
IntegratorLocals(i) ==
    [i |-> i, t |-> 0, points |-> <<>>, idx |-> 0, use_trapezoid |-> TRUE,
     integral |-> FromInt(0), steps |-> <<>>]

InitKernel ==
    /\ entry \in {"_hilbert_kernel", "_def_integrate"}
    /\ \/ /\ entry = "_hilbert_kernel"
          /\ data \in KernelSeries
          /\ \E i \in 0..(Len(data) - 1) : loc = IntegratorLocals(i)
          /\ pc = "comprehension"
       \/ /\ entry = "_def_integrate"
          /\ data \in SampleSeries
          /\ loc = IntegratorLocals(0)
          /\ pc = "integrate"
    /\ parallel = FALSE
    /\ window = 0
    /\ workers = 0
    /\ pool = "none"
    /\ job = IdleJob
    /\ task = <<>>
    /\ out = <<>>
    /\ order = <<>>
    /\ err = "none"
    /\ result = <<>>
    /\ files = {}

\* lines 43-47: t = data[i][0] and the list comprehension
KernelComprehension ==
    /\ entry = "_hilbert_kernel"
    /\ pc = "comprehension"
    /\ LET t == PX(data[loc.i + 1])
       IN  loc' = [loc EXCEPT !.t = t, !.points = HilbertIntegrand(data, t, 1)]
    /\ pc' = "integrate"
    /\ UNCHANGED <<entry, data, parallel, window, workers, pool, job, task, out, order, err,
                   result, files>>

\* lines 142-144: integral = 0, l = len(data), use_trapezoid = True
IntegrateEnter ==
    /\ pc = "integrate"
    /\ loc' = [loc EXCEPT !.points = IF entry = "_def_integrate" THEN data ELSE loc.points,
                          !.idx = 0,
                          !.use_trapezoid = TRUE,
                          !.integral = FromInt(0)]
    /\ pc' = "loop"
    /\ UNCHANGED <<entry, data, parallel, window, workers, pool, job, task, out, order, err,
                   result, files>>

\* lines 146-149: the iteration after a Simpson step does nothing
IterSkip ==
    /\ pc = "loop"
    /\ loc.idx < Len(loc.points) - 1
    /\ ~loc.use_trapezoid
    /\ loc' = [loc EXCEPT !.use_trapezoid = TRUE, !.idx = loc.idx + 1]
    /\ UNCHANGED <<entry, data, parallel, window, workers, pc, pool, job, task, out, order, err,
                   result, files>>

\* lines 150-157: the iteration adds a trapezoid contribution
IterTrapezoid ==
    /\ pc = "loop"
    /\ loc.idx < Len(loc.points) - 1
    /\ loc.use_trapezoid
    /\ UseTrapezoidAt(loc.points, loc.idx)
    /\ loc' = [loc EXCEPT
                 !.integral = RAdd(loc.integral,
                                   TrapezoidTerm(loc.points[loc.idx + 1], loc.points[loc.idx + 2])),
                 !.use_trapezoid = TRUE,
                 !.idx = loc.idx + 1,
                 !.steps = Append(loc.steps, [at |-> loc.idx, rule |-> "trapezoid"])]
    /\ UNCHANGED <<entry, data, parallel, window, workers, pc, pool, job, task, out, order, err,
                   result, files>>

\* mutant of IterSimpson: use_trapezoid is reset at once, so the iteration
\* after a Simpson step is not skipped
IterSimpsonNoSkip ==
    /\ pc = "loop"
    /\ loc.idx < Len(loc.points) - 1
    /\ loc.use_trapezoid
    /\ ~UseTrapezoidAt(loc.points, loc.idx)
    /\ loc' = [loc EXCEPT
                 !.integral = RAdd(loc.integral,
                                   SimpsonTerm(loc.points[loc.idx + 1], loc.points[loc.idx + 2],
                                               loc.points[loc.idx + 3])),
                 !.use_trapezoid = TRUE,
                 !.idx = loc.idx + 1,
                 !.steps = Append(loc.steps, [at |-> loc.idx, rule |-> "simpson"])]
    /\ UNCHANGED <<entry, data, parallel, window, workers, pc, pool, job, task, out, order, err,
                   result, files>>

\* lines 150-160: the iteration adds a Simpson contribution and leaves
\* use_trapezoid False for the next iteration
IterSimpson ==
    /\ pc = "loop"
    /\ loc.idx < Len(loc.points) - 1
    /\ loc.use_trapezoid
    /\ ~UseTrapezoidAt(loc.points, loc.idx)
    /\ loc' = [loc EXCEPT
                 !.integral = RAdd(loc.integral,
                                   SimpsonTerm(loc.points[loc.idx + 1], loc.points[loc.idx + 2],
                                               loc.points[loc.idx + 3])),
                 !.use_trapezoid = FALSE,
                 !.idx = loc.idx + 1,
                 !.steps = Append(loc.steps, [at |-> loc.idx, rule |-> "simpson"])]
    /\ UNCHANGED <<entry, data, parallel, window, workers, pc, pool, job, task, out, order, err,
                   result, files>>

\* mutant of IntegrateReturn: the loop ends one iteration early, as over
\* range(l - 2)
IntegrateReturnEarly ==
    /\ pc = "loop"
    /\ loc.idx >= Len(loc.points) - 2
    /\ IF entry = "_def_integrate"
       THEN /\ result' = loc.integral
            /\ pc' = "returned"
       ELSE /\ result' = result
            /\ pc' = "divide"
    /\ UNCHANGED <<entry, data, parallel, window, workers, pool, job, task, out, order, loc, err,
                   files>>

\* line 161: return integral, to the caller or to _hilbert_kernel
IntegrateReturn ==
    /\ pc = "loop"
    /\ loc.idx >= Len(loc.points) - 1
    /\ IF entry = "_def_integrate"
       THEN /\ result' = loc.integral
            /\ pc' = "returned"
       ELSE /\ result' = result
            /\ pc' = "divide"
    /\ UNCHANGED <<entry, data, parallel, window, workers, pool, job, task, out, order, loc, err,
                   files>>

\* lines 44 and 48: return (t, integral / math.pi)
KernelReturn ==
    /\ entry = "_hilbert_kernel"
    /\ pc = "divide"
    /\ result' = <<loc.t, OverPi(loc.integral)>>
    /\ pc' = "returned"
    /\ UNCHANGED <<entry, data, parallel, window, workers, pool, job, task, out, order, loc, err,
                   files>>

NextKernel ==
    \/ KernelComprehension
    \/ IntegrateEnter
    \/ IterSkip
    \/ IterTrapezoid
    \/ IterSimpson
    \/ IntegrateReturn
    \/ KernelReturn

SpecKernel == InitKernel /\ [][NextKernel]_vars

(* ------------------------------------------------------------------ *)
(* _analytical_phase on floats with a sign                              *)
(* ------------------------------------------------------------------ *)

\* A Python float has a sign also when it is zero.  The floats -1.0, -0.0,
\* 0.0 and 1.0 as <<sign, magnitude>>
Floats == {<<-1, 1>>, <<-1, 0>>, <<1, 0>>, <<1, 1>>}

\* f < 0: false for both zeros
FloatLessZero(f) == f[1] < 0 /\ f[2] > 0

\* 2 * math.pi, in quarters of pi
TwoPiQuarters == 8

\* math.atan2(y, x) in quarters of pi, for y and x in Floats (IEEE 754 and
\* C99 F.9.1.4: for y = +-0 the result is +-0 when x has a plus sign and
\* +-pi when it has a minus sign; for x = +-0 and y /= 0 it is +-pi/2)
Atan2Quarters(y, x) ==
    IF y[2] = 0
    THEN IF x[1] > 0 THEN 0 ELSE y[1] * 4
    ELSE y[1] * (IF x[2] = 0 THEN 2 ELSE IF x[1] > 0 THEN 1 ELSE 3)

\* line 309, the value of the term PosAtan2(y, x):
\* math.atan2(y, x) + (2 * math.pi if y < 0 else 0), in quarters of pi
PosAtan2Value(term) ==
    Atan2Quarters(term[2], term[3]) + (IF FloatLessZero(term[2]) THEN TwoPiQuarters ELSE 0)

\* the series _analytical_phase is called on: point k at x = k - 1, with a
\* float as y
FloatSeries ==
    UNION {[1..n -> Floats] : n \in 0..MaxLen}

AsPoints(fs) == [k \in 1..Len(fs) |-> <<k - 1, fs[k]>>]

\* the call _analytical_phase(real, imag): data is the pair of arguments
InitPhase ==
    /\ entry = "_analytical_phase"
    /\ \E re \in FloatSeries, im \in FloatSeries : data = <<AsPoints(re), AsPoints(im)>>
    /\ parallel = FALSE
    /\ window = 0
    /\ workers = 0
    /\ pool = "none"
    /\ pc = "call"
    /\ job = IdleJob
    /\ task = <<>>
    /\ out = <<>>
    /\ order = <<>>
    /\ loc = NoLocals
    /\ err = "none"
    /\ result = <<>>
    /\ files = {}

\* line 331: the list of (x, _pos_atan2(i, r)), with the angles evaluated
PhaseReturn ==
    /\ entry = "_analytical_phase"
    /\ pc = "call"
    /\ LET phase == AnalyticalPhase(data[1], data[2])
       IN  result' = [k \in 1..Len(phase) |-> <<PX(phase[k]), PosAtan2Value(PY(phase[k]))>>]
    /\ pc' = "returned"
    /\ UNCHANGED <<entry, data, parallel, window, workers, pool, job, task, out, order, loc, err,
                   files>>

SpecPhase == InitPhase /\ [][PhaseReturn]_vars

(* ------------------------------------------------------------------ *)
(* _low_pass called on a list of the caller                             *)
(* ------------------------------------------------------------------ *)

\* _low_pass(data, cutoff, pool) on a list in any order, with the cutoff
\* hilbert_decomp uses; pool is None or a pool of the caller
InitLowPass ==
    /\ entry = "_low_pass"
    /\ data \in InputSeries
    /\ parallel = FALSE
    /\ window = 0
    /\ workers \in 0..MaxWorkers
    /\ pool = IF workers > 0 THEN "open" ELSE "none"
    /\ pc = "call"
    /\ job = IdleJob
    /\ task = <<>>
    /\ out = <<>>
    /\ order = <<>>
    /\ loc = NoLocals
    /\ err = "none"
    /\ result = <<>>
    /\ files = {}

\* line 185: the run of _low_pass_kernel over data starts
LowPassStart ==
    /\ entry = "_low_pass"
    /\ pc = "call"
    /\ StartJob(Len(data), <<data, ProjLowPassCutoff>>, "_low_pass_kernel", pool)
    /\ pc' = "low_pass_run"
    /\ UNCHANGED <<entry, data, parallel, window, workers, pool, loc, err, result, files>>

\* line 185: _low_pass returns the list the run returned
LowPassResult ==
    /\ entry = "_low_pass"
    /\ pc = "low_pass_run"
    /\ job.state = "returned"
    /\ result' = job.value
    /\ pc' = "returned"
    /\ UNCHANGED <<entry, data, parallel, window, workers, pool, job, task, out, order, loc, err,
                   files>>

\* line 185: the exception of the run reaches the caller
LowPassRaised ==
    /\ entry = "_low_pass"
    /\ pc = "low_pass_run"
    /\ job.state = "raised"
    /\ err' = job.exc
    /\ pc' = "raised"
    /\ UNCHANGED <<entry, data, parallel, window, workers, pool, job, task, out, order, loc, result,
                   files>>

NextLowPass ==
    \/ LowPassStart
    \/ LowPassResult
    \/ LowPassRaised
    \/ RunStep

SpecLowPass == InitLowPass /\ [][NextLowPass]_vars

(* ------------------------------------------------------------------ *)
(* fit.py: poly_eval                                                    *)
(* ------------------------------------------------------------------ *)

\* pow(x, n) for an integer x and n >= 0; pow(0, 0) is 1
RECURSIVE Pow(_, _)
Pow(x, n) == IF n = 0 THEN 1 ELSE x * Pow(x, n - 1)

\* mutant of PolySum: the coefficients are read in descending degree
RECURSIVE PolySumDescending(_, _, _)
PolySumDescending(coeffs, x, m) ==
    IF m = 0 THEN 0
    ELSE PolySumDescending(coeffs, x, m - 1) + coeffs[m] * Pow(x, Len(coeffs) - m)

\* sum(k * pow(x, n) for n, k in enumerate(coeffs)) over the first m
\* coefficients: sum() starts from 0 and adds the terms in list order
RECURSIVE PolySum(_, _, _)
PolySum(coeffs, x, m) ==
    IF m = 0 THEN 0
    ELSE PolySum(coeffs, x, m - 1) + coeffs[m] * Pow(x, m - 1)

\* poly_eval(coeffs, x)
PolyEval(coeffs, x) == PolySum(coeffs, x, Len(coeffs))

\* the coefficients and inputs poly_eval is called with
CoeffValues == -1..2

PolyInputs == -2..2

\* the call poly_eval(coeffs, x): data is the pair of arguments
InitPoly ==
    /\ entry = "poly_eval"
    /\ \E c \in SeqsUpTo(CoeffValues, MaxCoeffs), x \in PolyInputs : data = <<c, x>>
    /\ parallel = FALSE
    /\ window = 0
    /\ workers = 0
    /\ pool = "none"
    /\ pc = "call"
    /\ job = IdleJob
    /\ task = <<>>
    /\ out = <<>>
    /\ order = <<>>
    /\ loc = NoLocals
    /\ err = "none"
    /\ result = <<>>
    /\ files = {}

\* line 76: return sum(...)
PolyEvalReturn ==
    /\ entry = "poly_eval"
    /\ pc = "call"
    /\ result' = PolyEval(data[1], data[2])
    /\ pc' = "returned"
    /\ UNCHANGED <<entry, data, parallel, window, workers, pool, job, task, out, order, loc, err,
                   files>>

SpecPoly == InitPoly /\ [][PolyEvalReturn]_vars

(* ------------------------------------------------------------------ *)
(* cli_util.py: parse_args                                              *)
(* ------------------------------------------------------------------ *)

\* A command line argument is the sequence of its characters.

\* s.startswith(prefix)
StartsWith(s, prefix) ==
    Len(s) >= Len(prefix) /\ SubSeq(s, 1, Len(prefix)) = prefix

\* s.split(sep) from position k on, cur being the part read so far
RECURSIVE SplitFrom(_, _, _, _)
SplitFrom(s, sep, k, cur) ==
    IF k > Len(s) THEN <<cur>>
    ELSE IF s[k] = sep THEN <<cur>> \o SplitFrom(s, sep, k + 1, <<>>)
    ELSE SplitFrom(s, sep, k + 1, Append(cur, s[k]))

\* s.split(sep)
Split(s, sep) == SplitFrom(s, sep, 1, <<>>)

DigitChars == <<"0", "1", "2", "3", "4", "5", "6", "7", "8", "9">>

IsDigit(c) == \E d \in 1..Len(DigitChars) : DigitChars[d] = c

DigitValue(c) == (CHOOSE d \in 1..Len(DigitChars) : DigitChars[d] = c) - 1

\* int(s) for a string of digits
RECURSIVE IntOfDigits(_)
IntOfDigits(s) ==
    IF s = <<>> THEN 0
    ELSE 10 * IntOfDigits(SubSeq(s, 1, Len(s) - 1)) + DigitValue(s[Len(s)])

\* pos_int(s): int(s) raises ValueError on a string that is no number, and
\* _require_positive raises it on a value <= 0 (the strings here are
\* digits and letters)
PosInt(s) ==
    IF s = <<>> \/ \E k \in 1..Len(s) : ~IsDigit(s[k]) THEN Raise("ValueError")
    ELSE IF IntOfDigits(s) <= 0 THEN Raise("ValueError")
    ELSE Ok(IntOfDigits(s))

Dashes == <<"-", "-">>

DegreeKey == <<"d", "e", "g", "r", "e", "e">>

HelpKey == <<"h", "e", "l", "p">>

\* the names_to_types of fit.py: {'degree': pos_int, 'help': None}
NamesToTypes == [k \in {DegreeKey, HelpKey} |-> IF k = DegreeKey THEN "pos_int" ELSE "None"]

\* the arguments of the command lines: --, --degree=2, --degree=0,
\* --degree, --help, --help=2, --x, f, f=2, --=2
ArgValues ==
    {Dashes,
     Dashes \o DegreeKey \o <<"=", "2">>,
     Dashes \o DegreeKey \o <<"=", "0">>,
     Dashes \o DegreeKey,
     Dashes \o HelpKey,
     Dashes \o HelpKey \o <<"=", "2">>,
     Dashes \o <<"x">>,
     <<"f">>,
     <<"f", "=", "2">>,
     Dashes \o <<"=", "2">>}

\* named[key] = value
DictSet(named, key, value) ==
    [k \in (DOMAIN named) \cup {key} |-> IF k = key THEN value ELSE named[k]]

\* the locals of parse_args; idx counts the arguments the loop has taken
ParseLocals ==
    [named |-> <<>>, positional |-> <<>>, can_parse_named |-> TRUE, idx |-> 0]

\* the call parse_args(names_to_types): data is sys.argv[1:]
InitParse ==
    /\ entry = "parse_args"
    /\ data \in SeqsUpTo(ArgValues, MaxArgs)
    /\ parallel = FALSE
    /\ window = 0
    /\ workers = 0
    /\ pool = "none"
    /\ pc = "loop"
    /\ job = IdleJob
    /\ task = <<>>
    /\ out = <<>>
    /\ order = <<>>
    /\ loc = ParseLocals
    /\ err = "none"
    /\ result = <<>>
    /\ files = {}

\* the argument the next iteration of line 49 takes
NextArg == data[loc.idx + 1]

\* mutant of ParsesAsOption: the test does not read can_parse_named
ParsesAsOptionAlways(parts, can_parse_named) == StartsWith(parts[1], Dashes)

\* line 51: parts[0].startswith('--') and can_parse_named
ParsesAsOption(parts, can_parse_named) ==
    StartsWith(parts[1], Dashes) /\ can_parse_named

\* line 52: key = parts[0][2:]
KeyOf(parts) == SubSeq(parts[1], 3, Len(parts[1]))

\* lines 53-64 for a key of names_to_types: the value stored in named, or
\* the panic
OptionValue(parts) ==
    LET key == KeyOf(parts)
    IN  IF Len(parts) = 2
        THEN IF NamesToTypes[key] = "None" THEN Raise("SystemExit")
             ELSE IF PosInt(parts[2]).ok THEN Ok(PosInt(parts[2]).val)
             ELSE Raise("SystemExit")
        ELSE IF NamesToTypes[key] = "None" THEN Ok("None")
        ELSE Raise("SystemExit")

InLoop == entry = "parse_args" /\ pc = "loop" /\ loc.idx < Len(data)

\* lines 53-62: a known option is stored in named
ArgOption ==
    /\ InLoop
    /\ LET parts == Split(NextArg, "=")
       IN  /\ ParsesAsOption(parts, loc.can_parse_named)
           /\ KeyOf(parts) \in DOMAIN NamesToTypes
           /\ OptionValue(parts).ok
           /\ loc' = [loc EXCEPT !.named = DictSet(loc.named, KeyOf(parts), OptionValue(parts).val),
                                 !.idx = loc.idx + 1]
    /\ UNCHANGED <<entry, data, parallel, window, workers, pc, pool, job, task, out, order, err,
                   result, files>>

\* lines 56, 60, 64 and 68: panic prints the message and exits
ArgPanic ==
    /\ InLoop
    /\ LET parts == Split(NextArg, "=")
       IN  /\ ParsesAsOption(parts, loc.can_parse_named)
           /\ IF KeyOf(parts) \in DOMAIN NamesToTypes
              THEN ~OptionValue(parts).ok
              ELSE parts[1] /= Dashes
    /\ err' = "SystemExit"
    /\ pc' = "raised"
    /\ UNCHANGED <<entry, data, parallel, window, workers, pool, job, task, out, order, loc,
                   result, files>>

\* lines 65-66: can_parse_named = False
ArgTerminator ==
    /\ InLoop
    /\ LET parts == Split(NextArg, "=")
       IN  /\ ParsesAsOption(parts, loc.can_parse_named)
           /\ KeyOf(parts) \notin DOMAIN NamesToTypes
           /\ parts[1] = Dashes
    /\ loc' = [loc EXCEPT !.can_parse_named = FALSE, !.idx = loc.idx + 1]
    /\ UNCHANGED <<entry, data, parallel, window, workers, pc, pool, job, task, out, order, err,
                   result, files>>

\* lines 69-70: positional.append(arg)
ArgPositional ==
    /\ InLoop
    /\ ~ParsesAsOption(Split(NextArg, "="), loc.can_parse_named)
    /\ loc' = [loc EXCEPT !.positional = Append(loc.positional, NextArg),
                          !.idx = loc.idx + 1]
    /\ UNCHANGED <<entry, data, parallel, window, workers, pc, pool, job, task, out, order, err,
                   result, files>>

\* line 71: return named, positional
ParseReturn ==
    /\ entry = "parse_args"
    /\ pc = "loop"
    /\ loc.idx >= Len(data)
    /\ result' = <<loc.named, loc.positional>>
    /\ pc' = "returned"
    /\ UNCHANGED <<entry, data, parallel, window, workers, pool, job, task, out, order, loc, err,
                   files>>

NextParse ==
    \/ ArgOption
    \/ ArgPanic
    \/ ArgTerminator
    \/ ArgPositional
    \/ ParseReturn

SpecParse == InitParse /\ [][NextParse]_vars

(* ------------------------------------------------------------------ *)
(* _imp_integrate, statement by statement                               *)
(* ------------------------------------------------------------------ *)

\* the locals of _imp_integrate(data)
ImpLocals == [integral |-> FromInt(0), integrated |-> <<>>]

InitImp ==
    /\ entry = "_imp_integrate"
    /\ data \in SampleSeries
    /\ parallel = FALSE
    /\ window = 0
    /\ workers = 0
    /\ pool = "none"
    /\ pc = "call"
    /\ job = IdleJob
    /\ task = <<>>
    /\ out = <<>>
    /\ order = <<>>
    /\ loc = NoLocals
    /\ err = "none"
    /\ result = <<>>
    /\ files = {}

\* lines 164-165: integral = 0, integrated = []
ImpEnter ==
    /\ entry = "_imp_integrate"
    /\ pc = "call"
    /\ loc' = ImpLocals
    /\ pc' = "imp_loop"
    /\ UNCHANGED <<entry, data, parallel, window, workers, pool, job, task, out, order, err,
                   result, files>>

\* line 166: range(l - 1) is evaluated before the first iteration and
\* raises NameError; the loop body (lines 167-170: append (p0[0], integral),
\* then add the trapezoid term) and the return of line 171 are not reached
ImpLoopHeader ==
    /\ entry = "_imp_integrate"
    /\ pc = "imp_loop"
    /\ err' = ImpIntegrate(data).exc
    /\ pc' = "raised"
    /\ UNCHANGED <<entry, data, parallel, window, workers, pool, job, task, out, order, loc,
                   result, files>>

NextImp ==
    \/ ImpEnter
    \/ ImpLoopHeader

SpecImp == InitImp /\ [][NextImp]_vars

(* ------------------------------------------------------------------ *)
(* The projection stage: hilbert_decomp's call of _lock_in_amp           *)
(* ------------------------------------------------------------------ *)

\* the parameters of _lock_in_amp as the call at line 82 binds them: three
\* positional arguments, and pool left at its default None
LockInLocals(signal, freq) ==
    [signal |-> signal, freq |-> freq, window |-> LockInWindow, pool |-> "none"]

\* hilbert_decomp at line 82, inside the with block of line 70
InitLockIn ==
    /\ entry = "_lock_in_amp"
    /\ data \in TailInputs
    /\ parallel \in BOOLEAN
    /\ window = 0
    /\ workers \in (IF parallel THEN 1..MaxWorkers ELSE {0})
    /\ pool = IF parallel THEN "open" ELSE "none"
    /\ pc = "call"
    /\ job = IdleJob
    /\ task = <<>>
    /\ out = <<>>
    /\ order = <<>>
    /\ loc = LocalsBeforeLockIn(data)
    /\ err = "none"
    /\ result = <<>>
    /\ files = {}

LockInEnter ==
    /\ entry = "_lock_in_amp"
    /\ pc = "call"
    /\ loc' = LockInLocals(loc.hilbert_data, loc.extracted_freq)
    /\ window' = LockInWindow
    /\ pc' = "imp_integrate"
    /\ UNCHANGED <<entry, data, parallel, workers, pool, job, task, out, order,
                   err, result, files>>

\* line 198; the exception leaves _lock_in_amp before it starts a run
LockInIntegrate ==
    /\ entry = "_lock_in_amp"
    /\ pc = "imp_integrate"
    /\ LET r == LockInAmp(loc.signal, loc.freq, loc.window)
       IN  /\ ~r.ok
           /\ err' = r.exc
    /\ pc' = "raised"
    /\ UNCHANGED <<entry, data, parallel, window, workers, pool, job, task, out,
                   order, loc, result, files>>

NextLockIn ==
    \/ LockInEnter
    \/ LockInIntegrate

SpecLockIn == InitLockIn /\ [][NextLockIn]_vars

(* ------------------------------------------------------------------ *)
(* Properties                                                           *)
(* ------------------------------------------------------------------ *)

Decomp == entry = "hilbert_decomp"

Ended == pc \in {"returned", "raised"}

Interrupted == err = "KeyboardInterrupt"

\* C1: a run of _parallelize that returns, returns a list of length count
\* whose element i is func(i, *uniforms), in the order of the job numbers,
\* without a pool and on a pool of any size, in whatever order the
\* invocations finished (so the two kinds of run return the same list).
C1_ResultsInIndexOrder ==
    job.state = "returned" =>
        /\ Len(job.value) = job.count
        /\ \A k \in 1..job.count :
              job.value[k] = Invoke(job.func, <<k - 1>> \o job.uniforms).val

\* a pooled run of two or more invocations returned although the first job
\* number was not the first to finish, and its results differ by position
C1_Witness ==
    /\ job.state = "returned"
    /\ job.pooled
    /\ job.count >= 2
    /\ order[1] /= 1
    /\ job.value[1] /= job.value[2]

\* C2: with parallel=True the pool exists from the first stage on, it has
\* been terminated whenever hilbert_decomp has returned or raised, and once
\* it is terminated no kernel invocation starts or finishes.
C2_PoolScopedToCall ==
    /\ []((Decomp /\ parallel) =>
            /\ (pc /= "call" => pool /= "none")
            /\ (Ended => pool = "terminated" /\ Running = {}))
    /\ [][pool = "terminated" => (task' = task /\ out' = out)]_vars

\* the call raised and the release stopped an invocation that was queued
\* or running
C2_Witness ==
    /\ Decomp
    /\ parallel
    /\ pc = "raised"
    /\ pool = "terminated"
    /\ \E k \in 1..Len(task) : task[k] = "killed"

\* C3: once an invocation of a run has failed or the caller has interrupted
\* the run, the run returns no list, the call returns nothing, no later
\* stage has run on results of the run, and the call ends with the one
\* exception of the run.
C3_AllOrNothing ==
    LET failed == job.state = "raised" \/ \E k \in 1..Len(task) : task[k] = "failed"
    IN  /\ failed =>
              /\ job.state /= "returned"
              /\ job.value = <<>>
              /\ result = <<>>
              /\ pc \in WaitPcs \cup {"unwind", "raised"}
              /\ loc.hilbert_data = <<>>
              /\ loc.phase = <<>>
        /\ (failed /\ pc \in {"unwind", "raised"}) => (err /= "none" /\ err = job.exc)

\* a call ended with the exception of a failed invocation while other
\* invocations of the same run had succeeded
C3_Witness ==
    /\ pc = "raised"
    /\ job.state = "raised"
    /\ ~Interrupted
    /\ \E k \in 1..Len(task) : task[k] = "failed"
    /\ \E k \in 1..Len(task) : task[k] = "done" /\ out[k].ok

\* the stages of hilbert_decomp, in the order of the claim
StageOrder ==
    <<"call", "sort", "hilbert", "hilbert_wait", "analytic", "freq", "extracted_freq",
      "lock_in", "write_proj", "low_pass_in", "low_pass_in_wait", "low_pass_hb",
      "low_pass_hb_wait", "reconstruct", "signal", "dump", "return", "leave", "returned">>

StagePos(p) == CHOOSE n \in 1..Len(StageOrder) : StageOrder[n] = p

IsStage(p) == \E n \in 1..Len(StageOrder) : StageOrder[n] = p

\* C4: hilbert_decomp moves from each stage to the next one of the fixed
\* order only, leaves a stage that runs kernels only when every invocation
\* of it is done, and otherwise only fails: a failure leads to the end of
\* the call, from which no stage is entered again.
C4_StagesInOrder ==
    [][(Decomp /\ pc' /= pc) =>
          \/ /\ IsStage(pc)
             /\ IsStage(pc')
             /\ StagePos(pc') = StagePos(pc) + 1
             /\ pc \in WaitPcs =>
                   /\ job.state = "returned"
                   /\ \A k \in 1..job.count : task[k] = "done"
          \/ /\ IsStage(pc)
             /\ pc \notin {"leave", "returned"}
             /\ pc' = "unwind"
          \/ /\ pc = "unwind"
             /\ pc' = "raised"]_vars

\* a pooled call went through every stage up to the projection, which
\* failed and ended it
C4_Witness ==
    /\ Decomp
    /\ pc = "raised"
    /\ err = "NameError"
    /\ job.pooled
    /\ job.count >= 2
    /\ \A k \in 1..job.count : task[k] = "done"

\* C5: a decomposition of fewer than 3 (well-formed) points ends with the
\* InsufficientData error, not with another error and not with a result.
C5_InsufficientData ==
    (Decomp /\ WellFormed(data) /\ Len(data) < 3 /\ Ended /\ ~Interrupted) =>
        (pc = "raised" /\ err = "InsufficientData")

\* C6: when two well-formed input points share an x, the decomposition
\* binds no frequency series, runs no stage after the finite difference,
\* returns nothing, and the error it ends with is the ZeroDivisionError of
\* the finite difference.
C6_DuplicateXIsFatal ==
    (Decomp /\ WellFormed(data) /\ ~DistinctX(data)) =>
        /\ loc.freq = <<>>
        /\ loc.extracted_freq = <<>>
        /\ result = <<>>
        /\ (IsStage(pc) => StagePos(pc) <= StagePos("freq"))
        /\ ((pc = "raised" /\ ~Interrupted) => err = "ZeroDivisionError")

\* a call on a series with a repeated x ended with the ZeroDivisionError
C6_Witness ==
    /\ Decomp
    /\ WellFormed(data)
    /\ ~DistinctX(data)
    /\ pc = "raised"
    /\ err = "ZeroDivisionError"
    /\ loc.phase /= <<>>

\* C7: a decomposition of 3 or more well-formed points with pairwise
\* distinct x ends by returning a pair of lists, not with an error.
C7_ReturnsPair ==
    (Decomp /\ WellFormed(data) /\ Len(data) >= 3 /\ DistinctX(data) /\ Ended
        /\ ~Interrupted) =>
        (pc = "returned" /\ Len(result) = 2)

\* the y of the input point at x
OriginalY(x) == PY(loc.data[CHOOSE k \in 1..Len(loc.data) : PX(loc.data[k]) = x])

C11_InputNotMutated ==
    [][/\ data' = data
       /\ (job.state = "active" /\ job'.state /= "idle" => job'.uniforms = job.uniforms)
       /\ (pc /= "sort" => loc'.data = loc.data)
       /\ (pc \in {"low_pass_in", "low_pass_in_wait"} /\ pc' = "low_pass_in_wait" =>
              loc'.in_phase_proj = loc.in_phase_proj)
       /\ (pc \in {"low_pass_hb", "low_pass_hb_wait"} /\ pc' = "low_pass_hb_wait" =>
              loc'.hb_phase_proj = loc.hb_phase_proj)]_vars

\* hilbert_decomp has sorted an unsorted list and hilbert has run on it
C11_Witness ==
    /\ Decomp
    /\ WellFormed(data)
    /\ ~IsSortedByX(data)
    /\ pc = "analytic"
    /\ loc.data = SortedByX(data)
    /\ loc.data /= data
    /\ Len(loc.hilbert_data) = Len(data)

\* what lines 71-82 compute from the input alone, every kernel invoked in
\* index order by one process: the exception the call ends with
SequentialOutcome(input) ==
    LET sorted == SortedByX(input)
        hs == [k \in 1..Len(sorted) |-> HilbertKernel(k - 1, SortedByX(sorted))]
        failed == {k \in 1..Len(hs) : ~hs[k].ok}
        hd == [k \in 1..Len(hs) |-> hs[k].val]
        fr == InstantaneousFrequency(AnalyticalPhase(sorted, hd))
    IN  IF failed /= {}
        THEN hs[CHOOSE k \in failed : \A j \in failed : k <= j].exc
        ELSE IF ~fr.ok
             THEN fr.exc
             ELSE LockInAmp(hd, ExtractedFreq(fr.val), LockInWindow).exc

CountX(s, x) == Cardinality({k \in 1..Len(s) : PX(s[k]) = x})

\* C13: hilbert(data) returns, for data in any order, a list as long as
\* data and ascending by x, with every x as often as the input has it (so
\* point i has the i-th smallest input x), and the y of each point is the
\* integral over the whole sorted series, for t the point's x, divided
\* by pi.
C13_HilbertSortedOneToOne ==
    (entry = "hilbert" /\ pc = "returned") =>
        /\ Len(result) = Len(data)
        /\ IsSortedByX(result)
        /\ \A x \in XsOf(data) \cup XsOf(result) : CountX(result, x) = CountX(data, x)
        /\ \A k \in 1..Len(result) :
              PY(result[k]) =
                  OverPi(DefIntegrate(HilbertIntegrand(SortedByX(data), PX(result[k]), 1)))

\* hilbert has returned the transform of an unsorted list of three points
C13_Witness ==
    /\ entry = "hilbert"
    /\ pc = "returned"
    /\ Len(data) = 3
    /\ ~IsSortedByX(data)
    /\ DistinctX(data)
    /\ result /= <<>>
    /\ PX(result[1]) /= PX(data[1])

\* C14: for t the x of point i, the list _hilbert_kernel integrates holds
\* the points of the series farther than the epsilon from t, in the order
\* of the series, each as (x, y / (t - x)); the points at t, point i among
\* them, are left out, so no quotient has a zero divisor, also when the
\* series has an x twice.
C14_IntegrandLeavesOutSingularity ==
    (entry = "_hilbert_kernel" /\ pc /= "comprehension") =>
        LET t == PX(data[loc.i + 1])
            kept == SelectIdx(data, LAMBDA p : ExceedsHilbertEpsilon(t - PX(p)), 1)
        IN  /\ loc.t = t
            /\ Len(loc.points) = Len(kept)
            /\ Len(data) - Len(loc.points) = CountX(data, t)
            /\ \A k \in 1..Len(kept) :
                  /\ t - PX(kept[k]) /= 0
                  /\ loc.points[k] = <<PX(kept[k]), Rat(PY(kept[k]), t - PX(kept[k]))>>

\* the kernel has returned for a point whose x the series has twice: both
\* points at that x are left out and the third is integrated
C14_Witness ==
    /\ entry = "_hilbert_kernel"
    /\ pc = "returned"
    /\ CountX(data, loc.t) = 2
    /\ Len(loc.points) = 1
    /\ result = <<loc.t, OverPi(DefIntegrate(loc.points))>>

\* C15: every point of the list _analytical_phase returns has
\* 0 <= y < 2 * pi, and its y is atan2(imag, real) plus 2 * pi exactly when
\* atan2(imag, real) is negative, whatever the signs of the two values,
\* zeros included.
C15_PhaseInRange ==
    (entry = "_analytical_phase" /\ pc = "returned") =>
        \A k \in 1..Len(result) :
            LET raw == Atan2Quarters(PY(data[2][k]), PY(data[1][k]))
            IN  /\ 0 <= PY(result[k])
                /\ PY(result[k]) < TwoPiQuarters
                /\ PY(result[k]) = raw + (IF raw < 0 THEN TwoPiQuarters ELSE 0)

\* the steps of the integrator's walk so far, and the point at 0-based
\* position i of the list it walks
StepsTaken == loc.steps

PointAt(i) == loc.points[i + 1]

InIntegrator == entry \in {"_hilbert_kernel", "_def_integrate"} /\ pc \in {"loop", "divide", "returned"}

StepContribution(st, from) ==
    LET p0 == PointAt(st.at)
        p1 == PointAt(st.at + 1)
    IN  IF st.rule = "trapezoid"
        THEN RDiv(RMul(FromInt(PX(p1) - PX(p0)), RAdd(PY(p1), PY(p0))), FromInt(2))
        ELSE LET p2 == PointAt(st.at + 2)
             IN  RMul(RDiv(FromInt(PX(p2) - PX(PointAt(st.at + from))), FromInt(6)),
                      RAdd(RAdd(PY(p0), RMul(FromInt(4), PY(p1))), PY(p2)))

RECURSIVE SumOfSteps(_, _)
SumOfSteps(k, from) ==
    IF k = 0 THEN FromInt(0)
    ELSE RAdd(SumOfSteps(k - 1, from), StepContribution(StepsTaken[k], from))

IntegratorDone ==
    \/ entry = "_def_integrate" /\ pc = "returned"
    \/ entry = "_hilbert_kernel" /\ pc \in {"divide", "returned"}

\* C17 as stated: the value the integrator returns is the sum of its
\* steps' contributions, (p1.x - p0.x) * (p1.y + p0.y) / 2 for a trapezoid
\* step and (p2.x - p1.x) / 6 * (p0.y + 4 * p1.y + p2.y) for a Simpson step.
C17_SumWithWidthFromMiddle ==
    IntegratorDone =>
        /\ loc.integral = SumOfSteps(Len(StepsTaken), 1)
        /\ (entry = "_def_integrate" => result = loc.integral)

\* C17 amended: the value the integrator returns is the sum of its steps'
\* contributions, (p1.x - p0.x) * (p1.y + p0.y) / 2 for a trapezoid step
\* and (p2.x - p0.x) / 6 * (p0.y + 4 * p1.y + p2.y) for a Simpson step.
C17_SumOfContributions ==
    IntegratorDone =>
        /\ loc.integral = SumOfSteps(Len(StepsTaken), 0)
        /\ (entry = "_def_integrate" => result = loc.integral)

\* the integrator has returned a sum with a Simpson step in it for which
\* the two widths give different contributions
C17_Witness ==
    /\ entry = "_def_integrate"
    /\ pc = "returned"
    /\ \E k \in 1..Len(StepsTaken) :
          /\ StepsTaken[k].rule = "simpson"
          /\ StepContribution(StepsTaken[k], 0) /= StepContribution(StepsTaken[k], 1)
    /\ \E k \in 1..Len(StepsTaken) : StepsTaken[k].rule = "trapezoid"
    /\ result = DefIntegrate(data)

\* C18: the first left endpoint of the integrator's walk is position 0;
\* after a Simpson step at i, which consumes the points i, i + 1 and i + 2,
\* the next left endpoint is i + 2, so that i + 1 is never one; after a
\* trapezoid step at i it is i + 1; and the rule at an endpoint is the one
\* the points from there on decide, whichever rule the step before used.
C18_SkipAfterSimpson ==
    InIntegrator =>
        /\ (StepsTaken /= <<>> => StepsTaken[1].at = 0)
        /\ \A k \in 1..Len(StepsTaken) :
              /\ (StepsTaken[k].rule = "simpson" =>
                    /\ StepsTaken[k].at + 2 <= Len(loc.points) - 1
                    /\ \A j \in 1..Len(StepsTaken) : StepsTaken[j].at /= StepsTaken[k].at + 1)
              /\ (k < Len(StepsTaken) =>
                    StepsTaken[k + 1].at =
                        StepsTaken[k].at + (IF StepsTaken[k].rule = "simpson" THEN 2 ELSE 1))
              /\ (StepsTaken[k].rule = "trapezoid" <=>
                    UseTrapezoidAt(loc.points, StepsTaken[k].at))

\* a walk over five points has returned after a Simpson step at 0 and a
\* second Simpson step at 2
C18_Witness ==
    /\ entry = "_def_integrate"
    /\ pc = "returned"
    /\ Len(StepsTaken) = 2
    /\ StepsTaken[1] = [at |-> 0, rule |-> "simpson"]
    /\ StepsTaken[2] = [at |-> 2, rule |-> "simpson"]

\* C19: _low_pass(series, cutoff) returns a list as long as series with
\* the x of series at every index; the y at index i is the integral of the
\* list of (x_j, y_j * f(t - x_j)) over all j, for t the x of point i,
\* where f(d) is 2 * cutoff when |d| is below the epsilon and
\* sin(2 * pi * cutoff * d) / (pi * d) otherwise; so no quotient is formed
\* with d = 0.
C19_LowPassConvolution ==
    (entry = "_low_pass" /\ pc = "returned") =>
        /\ SameX(result, data)
        /\ \A i \in 1..Len(result) :
              LET t == PX(data[i])
                  f(d) == IF WithinSincEpsilon(d)
                          THEN <<"const", RMul(FromInt(2), ProjLowPassCutoff)>>
                          ELSE <<"sin_2pi_over_pi", ProjLowPassCutoff, d>>
                  integrand == [j \in 1..Len(data) |->
                                  <<PX(data[j]), <<"mul", PY(data[j]), f(t - PX(data[j]))>>>>]
              IN  /\ PY(result[i]) = <<"def_integrate", integrand>>
                  /\ \A j \in 1..Len(data) :
                        LET s == PY(PY(result[i])[2][j])[3]
                        IN  s[1] = "sin_2pi_over_pi" => s[3] /= 0

\* _low_pass has returned the filtered list of an unsorted series of three
\* points with an x twice
C19_Witness ==
    /\ entry = "_low_pass"
    /\ pc = "returned"
    /\ Len(result) = 3
    /\ ~IsSortedByX(data)
    /\ ~DistinctX(data)

\* three samples of the clean signal (1 + cos(pi * x)) / 2, at x = 0, 1, 2
CleanSamples == <<<<0, 1>>, <<1, 0>>, <<2, 1>>>>

\* C21: the decomposition of a clean sampled sinusoid ends by returning an
\* extracted signal and a residual that each have a point at every input
\* x, which is what an RMS error of the signal against the input, and an
\* RMS of the residual, near zero are measured over.
C21_CleanSignalRoundTrip ==
    (Decomp /\ data = CleanSamples /\ Ended /\ ~Interrupted) =>
        /\ pc = "returned"
        /\ SameX(result[1], data)
        /\ SameX(result[2], data)

\* the value of the polynomial with coefficients c[k], c[k + 1], ... of
\* x^0, x^1, ... at x, by Horner's rule
RECURSIVE Horner(_, _, _)
Horner(c, x, k) == IF k > Len(c) THEN 0 ELSE c[k] + x * Horner(c, x, k + 1)

\* C22: poly_eval(coeffs, x) returns the value at x of the polynomial
\* whose coefficient of x^n is coeffs[n], which is 0 for every x when all
\* coefficients are 0.
C22_PolyEvalAscending ==
    (entry = "poly_eval" /\ pc = "returned") =>
        /\ result = Horner(data[1], data[2], 1)
        /\ ((\A k \in 1..Len(data[1]) : data[1][k] = 0) => result = 0)

\* poly_eval has returned for three coefficients that give another value
\* read in descending degree
C22_Witness ==
    /\ entry = "poly_eval"
    /\ pc = "returned"
    /\ data = <<<<2, -1, 1>>, -2>>
    /\ result = 8

\* C23: the iteration of parse_args that reads the argument '--' while
\* options are parsed adds it neither to named nor to positional and
\* disables option parsing; from then on parsing stays disabled and every
\* iteration appends its argument, whatever it is, to positional and
\* leaves named as it is, up to the return of the two.
C23_TerminatorDisablesOptions ==
    [][(entry = "parse_args" /\ pc = "loop") =>
          /\ ((loc.idx < Len(data) /\ loc.can_parse_named /\ NextArg = Dashes) =>
                /\ pc' = "loop"
                /\ ~loc'.can_parse_named
                /\ loc'.named = loc.named
                /\ loc'.positional = loc.positional)
          /\ (~loc.can_parse_named =>
                /\ ~loc'.can_parse_named
                /\ loc'.named = loc.named
                /\ IF loc.idx < Len(data)
                   THEN /\ pc' = "loop"
                        /\ loc'.positional = Append(loc.positional, NextArg)
                   ELSE /\ pc' = "returned"
                        /\ result' = <<loc.named, loc.positional>>)]_vars

\* parse_args has returned for --degree=2 -- --help: the option before the
\* '--' is in named, the known option after it is positional
C23_Witness ==
    /\ entry = "parse_args"
    /\ pc = "returned"
    /\ data = <<Dashes \o DegreeKey \o <<"=", "2">>, Dashes, Dashes \o HelpKey>>
    /\ DOMAIN result[1] = {DegreeKey}
    /\ result[1][DegreeKey] = 2
    /\ result[2] = <<Dashes \o HelpKey>>

\* C24: once freq is bound it has exactly one point fewer than phase; point
\* i has the x of phase point i and the y
\* ((phase[i+1].y - phase[i].y) mod 2 * pi) / (phase[i+1].x - phase[i].x),
\* whose divisor is positive, and which therefore is not negative, when
\* the x of phase ascend strictly.
C24_FreqOneShorter ==
    (Decomp /\ pc \in {"extracted_freq", "lock_in"}) =>
        /\ Len(loc.freq) = Len(loc.phase) - 1
        /\ \A i \in 1..Len(loc.freq) :
              /\ PX(loc.freq[i]) = PX(loc.phase[i])
              /\ PY(loc.freq[i]) =
                    <<"mod_2pi_div", PY(loc.phase[i + 1]), PY(loc.phase[i]),
                      PX(loc.phase[i + 1]) - PX(loc.phase[i])>>
              /\ (StrictlyAscending(loc.phase) => PY(loc.freq[i])[4] > 0)

\* a and b are the same value, for values of any two shapes (a number and
\* a term of the filter's integral are never equal)
SameValue(a, b) == ToString(a) = ToString(b)

\* C25: the extracted frequency the projection stage is called with is
\* the low-pass filter of freq at the cutoff: it has the length and the x
\* of freq, and its y at index i is the filter's integral over all of
\* freq, y values included.
C25_ExtractedFreqIsLowPass ==
    (Decomp /\ pc = "lock_in") =>
        /\ SameX(loc.extracted_freq, loc.freq)
        /\ \A i \in 1..Len(loc.freq) :
              SameValue(loc.extracted_freq[i],
                        LowPassKernel(i - 1, loc.freq, OrigIfLowPassCutoff).val)

\* the trapezoid sum of a series over its first m intervals
RECURSIVE TrapezoidSum(_, _)
TrapezoidSum(series, m) ==
    IF m = 0 THEN FromInt(0)
    ELSE RAdd(TrapezoidSum(series, m - 1),
              RDiv(RMul(FromInt(PX(series[m + 1]) - PX(series[m])),
                        RAdd(PY(series[m + 1]), PY(series[m]))),
                   FromInt(2)))

\* C26: the running integral of the projection stage starts at 0 and is
\* updated after the point of a step is appended: the list the integration
\* returns has, for every step i, the point (x_i, trapezoid sum over the
\* intervals before i), which is 0 at step 0.
C26_IntegralUpdatedAfterAppend ==
    (entry = "_imp_integrate" /\ Ended) =>
        /\ pc = "returned"
        /\ Len(result) = Max(Len(data) - 1, 0)
        /\ \A i \in 1..Len(result) :
              result[i] = <<PX(data[i]), TrapezoidSum(data, i - 1)>>

\* C27: within one decomposition call every run of per-point kernels is on
\* the call's one pool exactly when parallel was asked for, with
\* parallel=False there is no pool, and the projection stage is handed the
\* pool of the call it runs in.
C27_StagesShareThePool ==
    /\ (Decomp /\ job.state # "idle") => (job.pooled <=> parallel)
    /\ (Decomp /\ ~parallel) => pool = "none"
    /\ (entry = "_lock_in_amp" /\ pc # "call") =>
          /\ ~parallel => loc.pool = "none"
          /\ parallel => loc.pool = pool

\* the steps that account for the interval between the points at 0-based
\* positions k and k + 1: a trapezoid step at k, or a Simpson step at k or
\* at k - 1
StepsCovering(k) ==
    {j \in 1..Len(StepsTaken) :
        \/ StepsTaken[j].rule = "trapezoid" /\ StepsTaken[j].at = k
        \/ StepsTaken[j].rule = "simpson" /\ StepsTaken[j].at \in {k - 1, k}}

\* the 0-based position of the last point a step reads
LastRead(st) == st.at + (IF st.rule = "simpson" THEN 2 ELSE 1)

\* C28: for a series of n points, no step of the integrator reads a point
\* past the end and no interval is counted twice; when the integrator is
\* done every interval [x_k, x_k+1], k = 0..n-2, belongs to exactly one
\* step; for n < 2 no step is taken and the result is 0.
C28_EveryIntervalOnce ==
    InIntegrator =>
        LET n == Len(loc.points)
        IN  /\ \A j \in 1..Len(StepsTaken) :
                  StepsTaken[j].at >= 0 /\ LastRead(StepsTaken[j]) <= n - 1
            /\ \A k \in 0..(n - 2) : Cardinality(StepsCovering(k)) <= 1
            /\ IntegratorDone =>
                  /\ \A k \in 0..(n - 2) : Cardinality(StepsCovering(k)) = 1
                  /\ n < 2 =>
                        /\ StepsTaken = <<>>
                        /\ loc.integral = FromInt(0)
                        /\ (entry = "_def_integrate" /\ pc = "returned" =>
                              result = FromInt(0))

\* a five-point series integrated with a Simpson step over its first two
\* intervals and a trapezoid step over each of the other two
C28_Witness ==
    /\ entry = "_def_integrate"
    /\ pc = "returned"
    /\ Len(loc.points) = 5
    /\ StepsTaken = <<[at |-> 0, rule |-> "simpson"], [at |-> 2, rule |-> "trapezoid"],
                      [at |-> 3, rule |-> "trapezoid"]>>
    /\ \A k \in 0..3 : Cardinality(StepsCovering(k)) = 1

\* the job numbers whose invocation has finished, with repetitions
Invoked(k) == {n \in 1..Len(order) : order[n] = k}

\* C29: in one run of _parallelize the argument tuples are the indices
\* 0..count-1, one each, every one followed by the same uniforms; no index
\* is invoked twice and no other index is invoked; every result is what the
\* kernel computes from its own argument tuple alone; a run that returns
\* has invoked every index exactly once and returns one result per index;
\* for count = 0 nothing is invoked and the empty list is returned.
C29_OneInvocationPerIndex ==
    job.state # "idle" =>
        /\ Len(job.args) = job.count
        /\ \A k \in 1..job.count : job.args[k] = <<k - 1>> \o job.uniforms
        /\ \A n \in 1..Len(order) : order[n] \in 1..job.count
        /\ \A k \in 1..job.count :
              /\ Cardinality(Invoked(k)) <= 1
              /\ Invoked(k) # {} => out[k] = Invoke(job.func, job.args[k])
              /\ Invoked(k) = {} => out[k] = Pending
        /\ job.state = "returned" =>
              /\ \A k \in 1..job.count : Cardinality(Invoked(k)) = 1
              /\ Len(job.value) = job.count
        /\ job.count = 0 =>
              /\ order = <<>>
              /\ job.state = "returned" => job.value = <<>>

\* a pooled run of three invocations returned after they finished in the
\* order 1, 2, 0 of their indices; and a run with count = 0 is reachable
\* too (C29_EmptyRun)
C29_Witness ==
    /\ job.state = "returned"
    /\ job.pooled
    /\ job.count = 3
    /\ order = <<2, 3, 1>>
    /\ \A k \in 1..3 : job.args[k][1] = k - 1

C29_EmptyRun ==
    /\ job.state = "returned"
    /\ job.count = 0
    /\ job.value = <<>>

====
